---- MODULE Spec2Model ----
(***************************************************************************)
(* A model of the export code of city-download-portal:                     *)
(*   - the terrain extruder (extrudeTerrainMesh, findBoundaryEdges,        *)
(*     addEdge) as operators over flat vertex and face buffers;            *)
(*   - the asynchronous export pipeline (createMesh, extractElevation,     *)
(*     mergeSliceMeshes, createLayerMeshes) as a state machine over its    *)
(*     suspend points, with the abort signal as an environment action;     *)
(*   - the GLB to STL converter (convertToSTL and its callers).            *)
(* Each part has its own specification: SpecMesh, SpecPipeline, SpecSTL.   *)
(***************************************************************************)
EXTENDS Integers, Sequences, FiniteSets, TLC

\* ------------------------------------------------------------------------
\* Bounds of the model
\* ------------------------------------------------------------------------
\* Largest size of a feature map: its number of layers plus its number of
\* features (one layer of 3 features, two layers of 1 feature each).
MaxFeatureMapSize == 4
\* Largest size of an input terrain mesh: its number of vertices plus the
\* length of its face buffer (5 vertices with 2 triangles, 8 with 1).
MaxMeshSize == 11
\* Largest number of meshes in a loaded GLB scene.
MaxSceneMeshes == 2
\* Largest number of conversions the converter component is asked for.
MaxConversions == 3

VARIABLES
    \* --- terrain extruder ---
    mesh,             \* the input Mesh: position buffer and faces of components[0]
    bottomElevation,  \* the bottomElevation argument
    extrudedMesh,     \* what extrudeTerrainMesh returned (returned is FALSE before the call)
    boundaryEdges,    \* the extruder's local boundaryEdges: what findBoundaryEdges returned
    \* --- export pipeline (createMesh) ---
    req,              \* the arguments of the createMesh call
    pc,               \* the await createMesh, or the function it called, is suspended at
    aborted,          \* signal.aborted
    projected,        \* projectedExtent and projectedOrigin, by well-known id
    elevation,        \* the mesh extractElevation returned
    feat,             \* per feature: the state of its async callback in createLayerMeshes
    terrainConv,      \* the convertVertexSpace promise of the terrain
    originConv,       \* the convertVertexSpace promise of the origin marker
    promises,         \* the promises array of mergeSliceMeshes
    slice,            \* the meshes handed to meshUtils.merge, once it was called
    outcome,          \* how the createMesh promise settled
    history,          \* observations: the order conversions resolved in, abort timing
    \* --- GLB to STL converter ---
    stlReq,           \* the entry point called, its source and its options
    stlPc,            \* the await the entry point is suspended at
    scene,            \* the THREE.Group loadGLB resolved with (scale is mutable)
    conversion,       \* what the convertGLBToSTL promise settled with, and how
    downloads,        \* the files handed to the browser by downloadSTL / downloadFile
    ui,               \* React state and callbacks of the two components
    component         \* GLBToSTLConverterComponent: its glbUrl prop and its handleConversion calls

meshVars == <<mesh, bottomElevation, extrudedMesh, boundaryEdges>>

pipelineVars == <<req, pc, aborted, projected, elevation, feat, terrainConv, originConv,
                  promises, slice, outcome, history>>

stlVars == <<stlReq, stlPc, scene, conversion, downloads, ui>>

componentVars == <<component>>

vars == <<meshVars, pipelineVars, stlVars, componentVars>>

\* ------------------------------------------------------------------------
\* JavaScript values used by the extruder
\* ------------------------------------------------------------------------
\* One decimal digit as a one-character string.
DigitChar(d) ==
    CASE d = 0 -> "0" [] d = 1 -> "1" [] d = 2 -> "2" [] d = 3 -> "3" [] d = 4 -> "4"
      [] d = 5 -> "5" [] d = 6 -> "6" [] d = 7 -> "7" [] d = 8 -> "8" [] d = 9 -> "9"

\* The value of a digit character, -1 for any other character.
CharDigit(c) ==
    CASE c = "0" -> 0 [] c = "1" -> 1 [] c = "2" -> 2 [] c = "3" -> 3 [] c = "4" -> 4
      [] c = "5" -> 5 [] c = "6" -> 6 [] c = "7" -> 7 [] c = "8" -> 8 [] c = "9" -> 9
      [] OTHER -> -1

\* `${n}` for a non-negative integer: its decimal digits, a string kept as a
\* sequence of characters.
RECURSIVE NumberToString(_)
NumberToString(n) ==
    IF n < 10 THEN <<DigitChar(n)>>
    ELSE NumberToString(n \div 10) \o <<DigitChar(n % 10)>>

\* str.split(sep) for a one-character separator.
RECURSIVE StringSplit(_, _, _, _)
StringSplit(str, sep, i, cur) ==
    IF i > Len(str) THEN <<cur>>
    ELSE IF str[i] = sep THEN <<cur>> \o StringSplit(str, sep, i + 1, <<>>)
    ELSE StringSplit(str, sep, i + 1, Append(cur, str[i]))

\* Number(str) for a string of decimal digits (the empty string gives 0).
RECURSIVE StringToNumber(_, _, _)
StringToNumber(str, i, acc) ==
    IF i > Len(str) THEN acc
    ELSE StringToNumber(str, i + 1, acc * 10 + CharDigit(str[i]))

\* ------------------------------------------------------------------------
\* findBoundaryEdges and addEdge
\* ------------------------------------------------------------------------
\* The loops of the extruder are written in closed form, element by element,
\* over the same index arithmetic as the source: every element of a buffer is
\* the value the loop that owns its index writes there.

\* `${a}-${b}`
EdgeKey(a, b) == NumberToString(a) \o <<"-">> \o NumberToString(b)

\* Mutant of addEdge: the key keeps the direction the triangle gave the edge.
addEdge_Directed(v1, v2) == EdgeKey(v1, v2)

\* addEdge(edgeMap, v1, v2): the key whose count the call raises by one, with
\* the smaller vertex first.
addEdge(v1, v2) == IF v1 < v2 THEN EdgeKey(v1, v2) ELSE EdgeKey(v2, v1)

\* The loop of findBoundaryEdges: the (v1, v2) of its addEdge calls in order,
\* three for each triangle: (v1, v2), (v2, v3), (v3, v1).
AddEdgeCalls(faces) ==
    [j \in 1..Len(faces) |->
        LET i == 3 * ((j - 1) \div 3)
            c == (j - 1) % 3
        IN  <<faces[i + c + 1], faces[i + ((c + 1) % 3) + 1]>>]

\* The Map<string, number> after those calls, as the sequence of its entries
\* in insertion order: a key enters at its first addEdge call and keeps its
\* place, and its count is the number of calls that named it.
EdgeMap(faces) ==
    LET calls == AddEdgeCalls(faces)
        keys == [j \in 1..Len(calls) |-> addEdge(calls[j][1], calls[j][2])]
        entries == [j \in 1..Len(keys) |->
                       [first |-> \A i \in 1..(j - 1) : keys[i] # keys[j],
                        key |-> keys[j],
                        count |-> Cardinality({i \in 1..Len(keys) : keys[i] = keys[j]})]]
        IsFirst(e) == e.first
    IN  SelectSeq(entries, IsFirst)

\* edgeKey.split('-').map(Number), then [v1, v2] of it.
ParseEdgeKey(edgeKey) ==
    LET parts == StringSplit(edgeKey, "-", 1, <<>>)
    IN  <<StringToNumber(parts[1], 1, 0), StringToNumber(parts[2], 1, 0)>>

\* The entries counted once, in the map's order, each parsed back to a pair.
findBoundaryEdges(faces, vertexCount) ==
    LET CountedOnce(e) == e.count = 1
        once == SelectSeq(EdgeMap(faces), CountedOnce)
    IN  [k \in 1..Len(once) |-> ParseEdgeKey(once[k].key)]

\* ------------------------------------------------------------------------
\* extrudeTerrainMesh
\* ------------------------------------------------------------------------
\* A buffer a mesh may lack: present is FALSE for undefined.
Absent == [present |-> FALSE, data |-> <<>>]
Buffer(data) == [present |-> TRUE, data |-> data]

\* Mutant of NewVertices: the bottom vertices follow the terrain, each lowered
\* by the bottom elevation's distance from 0.
NewVertices_FollowTerrain(originalVertices, vertexCount, bottom) ==
    LET len == Len(originalVertices) IN
    [q \in 1..(len * 2) |->
        LET p == q - 1
            i == (p - len) \div 3
            c == (p - len) % 3
        IN  IF p < len THEN originalVertices[p + 1]
            ELSE IF i >= vertexCount THEN 0
            ELSE IF c = 2 THEN originalVertices[i * 3 + c + 1] + bottom
            ELSE originalVertices[i * 3 + c + 1]]

\* newVertices: the original vertices, then for each vertex i < vertexCount
\* its x and y and the bottom elevation as z. p is the 0-based index.
NewVertices(originalVertices, vertexCount, bottom) ==
    LET len == Len(originalVertices) IN
    [q \in 1..(len * 2) |->
        LET p == q - 1
            i == (p - len) \div 3
            c == (p - len) % 3
        IN  IF p < len THEN originalVertices[p + 1]
            ELSE IF i >= vertexCount THEN 0
            ELSE IF c = 2 THEN bottom
            ELSE originalVertices[i * 3 + c + 1]]

\* Mutant of SideFaceCount: room for one triangle for each boundary edge.
SideFaceCount_OneTriangle(edges) == Len(edges) * 3

\* sideFaceCount: two triangles, six indices, for each boundary edge.
SideFaceCount(edges) == Len(edges) * 6

\* Mutant of SideFace: the second triangle splits the quad along the other
\* diagonal, (topV2, topV1, bottomV2).
SideFace_OtherDiagonal(edge, vertexCount, c) ==
    LET topV1 == edge[1]
        topV2 == edge[2]
        bottomV1 == edge[1] + vertexCount
        bottomV2 == edge[2] + vertexCount
    IN  <<topV1, bottomV1, topV2, topV2, topV1, bottomV2>>[c + 1]

\* The c-th (0-based) of the six indices the wall loop writes for one boundary
\* edge: triangle (topV1, bottomV1, topV2), then (topV2, bottomV1, bottomV2).
SideFace(edge, vertexCount, c) ==
    LET topV1 == edge[1]
        topV2 == edge[2]
        bottomV1 == edge[1] + vertexCount
        bottomV2 == edge[2] + vertexCount
    IN  <<topV1, bottomV1, topV2, topV2, bottomV1, bottomV2>>[c + 1]

\* Mutant of BottomFace: the bottom triangle keeps the winding of the top one.
BottomFace_SameWinding(originalFaces, vertexCount, i, c) ==
    originalFaces[i + c + 1] + vertexCount

\* The index the bottom loop writes at offset c (0-based) of the triangle that
\* starts at face index i: the triangle reversed, offset by vertexCount.
BottomFace(originalFaces, vertexCount, i, c) ==
    originalFaces[i + (2 - c) + 1] + vertexCount

\* newFaces: a zeroed Uint32Array of the three counts; the top faces from 0,
\* six wall indices for each boundary edge from originalFaceCount, and the
\* bottom faces from the faceIndex the wall loop ended at. A write past the
\* end of a typed array is dropped. The indices stored are far below 2^32, so
\* none wraps.
NewFaces(originalFaces, edges, vertexCount) ==
    LET originalFaceCount == Len(originalFaces)
        sideFaceCount == SideFaceCount(edges)
        bottomFaceCount == originalFaceCount
        faceIndex == originalFaceCount + Len(edges) * 6
    IN  [q \in 1..(originalFaceCount + sideFaceCount + bottomFaceCount) |->
            LET p == q - 1 IN
            IF p < originalFaceCount THEN originalFaces[p + 1]
            ELSE IF p < faceIndex
                 THEN SideFace(edges[((p - originalFaceCount) \div 6) + 1], vertexCount,
                               (p - originalFaceCount) % 6)
            ELSE IF p < faceIndex + originalFaceCount
                 THEN BottomFace(originalFaces, vertexCount,
                                 3 * ((p - faceIndex) \div 3), (p - faceIndex) % 3)
            ELSE 0]

extrudeTerrainMesh(m, bottom) ==
    IF ~m.position.present \/ ~m.faces.present THEN m
    ELSE
    LET originalVertices == m.position.data
        originalFaces == m.faces.data
        vertexCount == Len(originalVertices) \div 3
        edges == findBoundaryEdges(originalFaces, vertexCount)
    IN  [position |-> Buffer(NewVertices(originalVertices, vertexCount, bottom)),
         faces |-> Buffer(NewFaces(originalFaces, edges, vertexCount)),
         spatialReference |-> m.spatialReference]

\* No createMesh call: the pipeline variables of a specification without one.
PipelineIdle ==
    /\ req = [layers |-> <<>>]
    /\ pc = "none"
    /\ aborted = FALSE
    /\ projected = [extent |-> 0, origin |-> 0]
    /\ elevation = [name |-> "none"]
    /\ feat = <<>>
    /\ terrainConv = [state |-> "none"]
    /\ originConv = [state |-> "none"]
    /\ promises = <<>>
    /\ slice = [merged |-> FALSE, meshes |-> <<>>]
    /\ outcome = "pending"
    /\ history = [resolved |-> <<>>, abortedDuringConversion |-> FALSE]

\* No conversion requested: the converter variables of a specification
\* without one.
NoScene == [loaded |-> FALSE]
NoConversion == [settled |-> FALSE]
STLIdle ==
    /\ stlReq = [entry |-> "none"]
    /\ stlPc = "none"
    /\ scene = NoScene
    /\ conversion = NoConversion
    /\ downloads = <<>>
    /\ ui = [isConverting |-> FALSE, isConvertingToSTL |-> FALSE, callbacks |-> <<>>,
             settled |-> "pending"]
    /\ component = [mounted |-> FALSE]

\* ------------------------------------------------------------------------
\* SpecMesh: the extruder applied to every small input mesh
\* ------------------------------------------------------------------------
\* The well-known id the terrain meshes of SpecMesh carry.
TerrainWkid == 1

\* Two terrains: the flat square of the specification (z = 0, bottom -10) and
\* a slope whose vertices all differ in z.
TerrainProfiles == {[name |-> "flat", bottom |-> -10], [name |-> "slope", bottom |-> -3]}

\* The position buffer of n vertices: x, y on a two-column grid, z by profile.
PositionBuffer(n, profile) ==
    [j \in 1..(3 * n) |->
        LET i == (j - 1) \div 3
            c == (j - 1) % 3
        IN  IF c = 0 THEN i % 2
            ELSE IF c = 1 THEN i \div 2
            ELSE IF profile = "flat" THEN 0 ELSE i + 1]

\* Every face buffer over n vertices that keeps the mesh within MaxMeshSize,
\* with every index in range; degenerate and repeated triangles included.
FaceBuffers(n) == UNION {[1..(3 * t) -> 0..(n - 1)] : t \in 0..((MaxMeshSize - n) \div 3)}

NotReturned == [returned |-> FALSE,
                mesh |-> [position |-> Absent, faces |-> Absent, spatialReference |-> 0]]

InitMesh ==
    /\ \E p \in TerrainProfiles :
         /\ bottomElevation = p.bottom
         /\ \/ \E n \in 3..MaxMeshSize : \E f \in FaceBuffers(n) :
                 mesh = [position |-> Buffer(PositionBuffer(n, p.name)),
                         faces |-> Buffer(f), spatialReference |-> TerrainWkid]
            \/ mesh = [position |-> Absent, faces |-> Buffer(<<0, 1, 2>>),
                       spatialReference |-> TerrainWkid]
            \/ mesh = [position |-> Buffer(PositionBuffer(3, p.name)), faces |-> Absent,
                       spatialReference |-> TerrainWkid]
    /\ extrudedMesh = NotReturned
    /\ boundaryEdges = <<>>
    /\ PipelineIdle
    /\ STLIdle

\* A call of extrudeTerrainMesh(mesh, bottomElevation). boundaryEdges keeps the
\* value its findBoundaryEdges call returned (no call on the early return).
ExtrudeTerrainMeshCall ==
    /\ ~extrudedMesh.returned
    /\ extrudedMesh' = [returned |-> TRUE, mesh |-> extrudeTerrainMesh(mesh, bottomElevation)]
    /\ boundaryEdges' =
         IF ~mesh.position.present \/ ~mesh.faces.present THEN <<>>
         ELSE findBoundaryEdges(mesh.faces.data, Len(mesh.position.data) \div 3)
    /\ UNCHANGED <<mesh, bottomElevation>>

NextMesh == ExtrudeTerrainMeshCall /\ UNCHANGED <<pipelineVars, stlVars, componentVars>>

SpecMesh == InitMesh /\ [][NextMesh]_vars

\* ------------------------------------------------------------------------
\* The export pipeline: createMesh, extractElevation, mergeSliceMeshes,
\* createLayerMeshes
\* ------------------------------------------------------------------------
\* The functions of @arcgis/core the pipeline awaits are its environment:
\* projection.load, meshUtils.createFromElevation, mesh.load, createOriginMarker
\* and slice.load settle at any later step and are taken to succeed;
\* meshUtils.convertVertexSpace rejects when the signal it was given has fired
\* by the time it settles, and resolves with a new mesh otherwise.

\* Well-known ids: WGS84 and a projected national grid.
Wkids == {4326, 2056}
isWGS84(wkid) == wkid = 4326
isWebMercator(wkid) == wkid \in {3857, 102100, 102113}

\* The features of layer l, each [objectId, zmin, zmax] of its mesh extent.
FeatureList(l, n, zmin) ==
    [i \in 1..n |-> [objectId |-> i, zmin |-> zmin + i, zmax |-> zmin + i + 20]]

\* Every feature map within MaxFeatureMapSize: a sequence of layers, each with
\* a well-known id and a list of features. zmins are the elevations a layer's
\* features may start from.
FeatureMaps(zmins) ==
    LET LayerShapes(len) == [wkid : Wkids, n : 0..(MaxFeatureMapSize - len), zmin : zmins]
        Total(shapes) == IF Len(shapes) = 0 THEN 0
                         ELSE LET F[k \in 0..Len(shapes)] ==
                                      IF k = 0 THEN 0 ELSE F[k - 1] + shapes[k].n
                              IN  F[Len(shapes)]
        Shapes == UNION {{sh \in [1..len -> LayerShapes(len)] :
                              len + Total(sh) <= MaxFeatureMapSize} :
                            len \in 0..MaxFeatureMapSize}
    IN  {[l \in 1..Len(sh) |->
             [wkid |-> sh[l].wkid, title |-> l,
              features |-> FeatureList(l, sh[l].n, sh[l].zmin)]] : sh \in Shapes}

\* The ids of all features of a feature map: <<layer, position in its list>>.
FeatureIds(layers) ==
    {<<l, i>> : l \in 1..Len(layers), i \in 1..MaxFeatureMapSize} \cap
    UNION {{<<l, i>> : i \in 1..Len(layers[l].features)} : l \in 1..Len(layers)}

\* Array.from(features.values()).flat(): the features of all layers in order.
RECURSIVE allFeatures(_, _)
allFeatures(layers, l) ==
    IF l > Len(layers) THEN <<>>
    ELSE layers[l].features \o allFeatures(layers, l + 1)

\* features.keys().next().value?.spatialReference ?? originSpatialReference
createMeshSr(r) == IF Len(r.layers) > 0 THEN r.layers[1].wkid ELSE r.originWkid

\* The mesh createFromElevation resolves with: a sloping square of 4 vertices
\* and 2 triangles in the spatial reference of the projected extent.
createFromElevation(extentWkid) ==
    [position |-> Buffer(PositionBuffer(4, "slope")),
     faces |-> Buffer(<<0, 1, 2, 1, 3, 2>>),
     spatialReference |-> extentWkid]

\* mesh.extent.zmin and zmax: over the z of the position buffer.
MeshZs(m) == {m.position.data[3 * i] : i \in 1..(Len(m.position.data) \div 3)}
ExtentZmin(m) == CHOOSE z \in MeshZs(m) : \A y \in MeshZs(m) : z <= y
ExtentZmax(m) == CHOOSE z \in MeshZs(m) : \A y \in MeshZs(m) : z >= y

\* Math.min over a non-empty set; the running min and max of a reduce.
MinOf(S) == CHOOSE z \in S : \A y \in S : z <= y
MaxOf(S) == CHOOSE z \in S : \A y \in S : z >= y

\* extractElevation: the lowest elevation of the terrain and of all features
\* of the feature map.
minElevation(m, layers) ==
    LET all == allFeatures(layers, 1) IN
    IF Len(layers) > 0 /\ Len(all) > 0
    THEN MinOf({ExtentZmin(m)} \cup {all[k].zmin : k \in 1..Len(all)})
    ELSE ExtentZmin(m)

\* Mutant of baseElevation: the depth is added.
baseElevation_Raised(m, layers, extrusionDepth) == minElevation(m, layers) + extrusionDepth

\* extractElevation: baseElevation = minElevation - extrusionDepth
baseElevation(m, layers, extrusionDepth) == minElevation(m, layers) - extrusionDepth

\* mergeSliceMeshes: the vertex space class chosen for the merge.
VertexSpace(sr) == IF isWGS84(sr) \/ isWebMercator(sr) THEN "local" ELSE "georeferenced"

\* Mutant of LayerSkipped: no layer is skipped.
LayerSkipped_Never(layer, originWkid) == FALSE

\* mergeSliceMeshes: a layer is skipped when its well-known id differs from
\* that of the (projected) origin.
LayerSkipped(layer, originWkid) == layer.wkid # originWkid

\* mergeSliceMeshes: height of the origin marker, zmax - zmin over the extent
\* of the elevation mesh and of all features of the feature map.
OriginMarkerHeight(elev, layers) ==
    LET all == allFeatures(layers, 1)
        zmax == MaxOf({ExtentZmax(elev)} \cup {all[k].zmax : k \in 1..Len(all)})
        zmin == MinOf({ExtentZmin(elev)} \cup {all[k].zmin : k \in 1..Len(all)})
    IN  zmax - zmin

\* Mutant of FeatureConvertOptions: the options carry no signal.
FeatureConvertOptions_NoSignal(signal) == [signal |-> FALSE]

\* The options of the three convertVertexSpace calls: { signal }.
FeatureConvertOptions(signal) == [signal |-> signal]
TerrainConvertOptions(signal) == [signal |-> signal]
OriginConvertOptions(signal) == [signal |-> signal]

\* A pending convertVertexSpace(source, vertexSpace, options) promise.
convertVertexSpace(source, vertexSpace, options) ==
    [state |-> "pending", source |-> source, vertexSpace |-> vertexSpace,
     signal |-> options.signal]

\* The promise once settled: rejected if its signal has fired, else resolved
\* with the converted mesh.
Settled(conv, signalAborted) ==
    IF conv.signal /\ signalAborted
    THEN [conv EXCEPT !.state = "rejected"]
    ELSE [conv EXCEPT !.state = "resolved"]

\* The mesh a resolved conversion holds.
ConvertedMesh(conv) == [source |-> conv.source, vertexSpace |-> conv.vertexSpace]

NoConv == [state |-> "none"]

\* Mutant of PromiseState: the join does not wait for the terrain's conversion.
PromiseState_TerrainNotAwaited(slot, featState, terrain, origin) ==
    IF slot[1] = "terrain" THEN "resolved"
    ELSE IF slot[1] = "origin" THEN origin.state
    ELSE LET ids == {f \in DOMAIN featState : f[1] = slot[2]} IN
         IF \E f \in ids : featState[f].conv.state = "rejected" THEN "rejected"
         ELSE IF \A f \in ids : featState[f].conv.state = "resolved" THEN "resolved"
         ELSE "pending"

\* The state of a promise of the promises array: a layer's promise is the
\* Promise.all of its features' promises.
PromiseState(slot, featState, terrain, origin) ==
    IF slot[1] = "terrain" THEN terrain.state
    ELSE IF slot[1] = "origin" THEN origin.state
    ELSE LET ids == {f \in DOMAIN featState : f[1] = slot[2]} IN
         IF \E f \in ids : featState[f].conv.state = "rejected" THEN "rejected"
         ELSE IF \A f \in ids : featState[f].conv.state = "resolved" THEN "resolved"
         ELSE "pending"

\* The value a promise of the promises array resolved with: a layer's promise
\* gives the array of its features' meshes in list order, the others a mesh.
PromiseValue(slot, layers, featState, terrain, origin) ==
    IF slot[1] = "terrain" THEN <<ConvertedMesh(terrain)>>
    ELSE IF slot[1] = "origin" THEN <<ConvertedMesh(origin)>>
    ELSE [i \in 1..Len(layers[slot[2]].features) |->
             ConvertedMesh(featState[<<slot[2], i>>].conv)]

\* The conversion a resolved id of the history stands for.
ConvOf(id, featState, terrain, origin) ==
    IF id[1] = "terrain" THEN terrain
    ELSE IF id[1] = "origin" THEN origin
    ELSE featState[<<id[2], id[3]>>].conv

\* Mutant of MergeInput: the meshes in the order their conversions resolved.
MergeInput_CompletionOrder(slots, layers, featState, terrain, origin, resolvedOrder) ==
    [k \in 1..Len(resolvedOrder) |->
        ConvertedMesh(ConvOf(resolvedOrder[k], featState, terrain, origin))]

\* (await Promise.all(promises)).flat(): the values in the order of the
\* promises array, each layer's array spliced in. No conversion resolves with
\* null, so the filter before the merge keeps every mesh.
MergeInput(slots, layers, featState, terrain, origin, resolvedOrder) ==
    LET F[k \in 0..Len(slots)] ==
            IF k = 0 THEN <<>>
            ELSE F[k - 1] \o PromiseValue(slots[k], layers, featState, terrain, origin)
    IN  F[Len(slots)]

\* ------------------------------------------------------------------------
\* SpecPipeline: one createMesh call, its awaits settling in any order, and
\* the abort signal firing at any moment before the call has settled
\* ------------------------------------------------------------------------
NoMesh == [position |-> Absent, faces |-> Absent, spatialReference |-> 0]

\* The createMesh calls: every feature map, extent and origin in either
\* spatial reference, with and without origin marker and extrusion.
InitPipelineWith(zmins, depths) ==
    /\ \E fm \in FeatureMaps(zmins), ew \in Wkids, ow \in Wkids,
          marker \in BOOLEAN, extrude \in BOOLEAN, depth \in depths :
           req = [layers |-> fm, extentWkid |-> ew, originWkid |-> ow,
                  includeOriginMarker |-> marker, extrudeBase |-> extrude,
                  extrusionDepth |-> depth]
    /\ pc = "start"
    /\ aborted = FALSE
    /\ projected = [extent |-> 0, origin |-> 0]
    /\ elevation = [name |-> "none"]
    /\ feat = [f \in FeatureIds(req.layers) |->
                  [load |-> "none", conv |-> NoConv, name |-> <<"original">>]]
    /\ terrainConv = NoConv
    /\ originConv = NoConv
    /\ promises = <<>>
    /\ slice = [merged |-> FALSE, meshes |-> <<>>]
    /\ outcome = "pending"
    /\ history = [resolved |-> <<>>, abortedDuringConversion |-> FALSE]
    /\ mesh = NoMesh
    /\ bottomElevation = 0
    /\ extrudedMesh = NotReturned
    /\ boundaryEdges = <<>>
    /\ STLIdle

\* The default extrusionDepth of createMesh.
DefaultExtrusionDepth == 50

InitPipeline == InitPipelineWith({10}, {DefaultExtrusionDepth})

\* createMesh up to its first await: projection.load() for the extent, else
\* for the origin, else createFromElevation inside extractElevation.
CreateMeshCall ==
    /\ pc = "start"
    /\ LET sr == createMeshSr(req) IN
       IF req.extentWkid # sr
       THEN /\ pc' = "projectionLoadExtent"
            /\ UNCHANGED projected
       ELSE IF req.originWkid # sr
       THEN /\ pc' = "projectionLoadOrigin"
            /\ projected' = [projected EXCEPT !.extent = req.extentWkid]
       ELSE /\ pc' = "createFromElevation"
            /\ projected' = [extent |-> req.extentWkid, origin |-> req.originWkid]
    /\ UNCHANGED <<req, aborted, elevation, feat, terrainConv, originConv, promises,
                   slice, outcome, history, meshVars>>
    /\ UNCHANGED <<stlVars, componentVars>>

\* projection.load() settled: the extent is projected to sr; next await.
ProjectionLoadedForExtent ==
    /\ pc = "projectionLoadExtent"
    /\ LET sr == createMeshSr(req) IN
       IF req.originWkid # sr
       THEN /\ pc' = "projectionLoadOrigin"
            /\ projected' = [projected EXCEPT !.extent = sr]
       ELSE /\ pc' = "createFromElevation"
            /\ projected' = [extent |-> sr, origin |-> req.originWkid]
    /\ UNCHANGED <<req, aborted, elevation, feat, terrainConv, originConv, promises,
                   slice, outcome, history, meshVars>>
    /\ UNCHANGED <<stlVars, componentVars>>

\* projection.load() settled: the origin is projected to sr; extractElevation
\* is called and awaits createFromElevation.
ProjectionLoadedForOrigin ==
    /\ pc = "projectionLoadOrigin"
    /\ pc' = "createFromElevation"
    /\ projected' = [projected EXCEPT !.origin = createMeshSr(req)]
    /\ UNCHANGED <<req, aborted, elevation, feat, terrainConv, originConv, promises,
                   slice, outcome, history, meshVars>>
    /\ UNCHANGED <<stlVars, componentVars>>

\* createFromElevation settled. Without extrudeBase the terrain is named and
\* returned; with it the base elevation is computed and extrudeTerrainMesh is
\* called and awaited.
CreateFromElevationSettled ==
    /\ pc = "createFromElevation"
    /\ mesh' = createFromElevation(projected.extent)
    /\ IF ~req.extrudeBase
       THEN /\ elevation' = [name |-> "<terrain>", mesh |-> mesh']
            /\ pc' = "extractElevation"
            /\ UNCHANGED <<bottomElevation, extrudedMesh, boundaryEdges>>
       ELSE /\ bottomElevation' = baseElevation(mesh', req.layers, req.extrusionDepth)
            /\ extrudedMesh' = [returned |-> TRUE,
                                mesh |-> extrudeTerrainMesh(mesh', bottomElevation')]
            /\ boundaryEdges' = findBoundaryEdges(mesh'.faces.data,
                                                  Len(mesh'.position.data) \div 3)
            /\ pc' = "extrudeTerrainMesh"
            /\ UNCHANGED elevation
    /\ UNCHANGED <<req, aborted, projected, feat, terrainConv, originConv, promises,
                   slice, outcome, history>>
    /\ UNCHANGED <<stlVars, componentVars>>

\* await extrudeTerrainMesh(...) resumed: the components are named and the
\* extruded mesh is returned.
ExtrudeTerrainMeshAwaited ==
    /\ pc = "extrudeTerrainMesh"
    /\ elevation' = [name |-> "elevation", mesh |-> extrudedMesh.mesh]
    /\ pc' = "extractElevation"
    /\ UNCHANGED <<req, aborted, projected, feat, terrainConv, originConv, promises,
                   slice, outcome, history, meshVars>>
    /\ UNCHANGED <<stlVars, componentVars>>

\* await extractElevation(...) resumed: mergeSliceMeshes runs up to its first
\* await. Every feature of a layer that is not skipped has its async callback
\* started, which calls mesh.load(); the terrain conversion is called; with an
\* origin marker the height is computed and createOriginMarker awaited.
MergeSliceMeshesCall ==
    /\ pc = "extractElevation"
    /\ LET layers == req.layers
           Kept(slot) == ~LayerSkipped(layers[slot[2]], projected.origin)
       IN
       /\ feat' = [f \in DOMAIN feat |->
                      IF LayerSkipped(layers[f[1]], projected.origin) THEN feat[f]
                      ELSE [feat[f] EXCEPT !.load = "loading"]]
       /\ promises' = SelectSeq([l \in 1..Len(layers) |-> <<"layer", l>>], Kept)
                          \o <<<<"terrain", 0>>>>
       /\ terrainConv' = convertVertexSpace(<<"terrain", 0, 0>>,
                                            VertexSpace(createMeshSr(req)),
                                            TerrainConvertOptions(TRUE))
       /\ IF req.includeOriginMarker
          THEN /\ originConv' = [state |-> "creating",
                                 height |-> OriginMarkerHeight(elevation.mesh, layers)]
               /\ pc' = "createOriginMarker"
          ELSE /\ originConv' = NoConv
               /\ pc' = "promiseAll"
    /\ UNCHANGED <<req, aborted, projected, elevation, slice, outcome, history, meshVars>>
    /\ UNCHANGED <<stlVars, componentVars>>

\* createOriginMarker settled: its mesh is converted and the promise pushed;
\* mergeSliceMeshes awaits Promise.all(promises).
OriginMarkerCreated ==
    /\ pc = "createOriginMarker"
    /\ originConv' = convertVertexSpace(<<"origin", 0, originConv.height>>,
                                        VertexSpace(createMeshSr(req)),
                                        OriginConvertOptions(TRUE))
    /\ promises' = Append(promises, <<"origin", 0>>)
    /\ pc' = "promiseAll"
    /\ UNCHANGED <<req, aborted, projected, elevation, feat, terrainConv, slice, outcome,
                   history, meshVars>>
    /\ UNCHANGED <<stlVars, componentVars>>

\* mesh.load() of a feature settled: its components are named after the layer
\* and the object id, and its conversion is called.
FeatureLoaded(f) ==
    /\ feat[f].load = "loading"
    /\ feat' = [feat EXCEPT ![f] =
                   [load |-> "loaded",
                    name |-> <<req.layers[f[1]].title,
                               req.layers[f[1]].features[f[2]].objectId>>,
                    conv |-> convertVertexSpace(<<"feature", f[1], f[2]>>,
                                                VertexSpace(createMeshSr(req)),
                                                FeatureConvertOptions(TRUE))]]
    /\ UNCHANGED <<req, pc, aborted, projected, elevation, terrainConv, originConv,
                   promises, slice, outcome, history, meshVars>>
    /\ UNCHANGED <<stlVars, componentVars>>

\* The history after a conversion settled.
Resolved(h, conv) ==
    IF conv.state = "resolved" THEN [h EXCEPT !.resolved = Append(@, conv.source)] ELSE h

\* convertVertexSpace of a feature settled.
FeatureConversionSettled(f) ==
    /\ feat[f].conv.state = "pending"
    /\ feat' = [feat EXCEPT ![f].conv = Settled(@, aborted)]
    /\ history' = Resolved(history, feat'[f].conv)
    /\ UNCHANGED <<req, pc, aborted, projected, elevation, terrainConv, originConv,
                   promises, slice, outcome, meshVars>>
    /\ UNCHANGED <<stlVars, componentVars>>

\* convertVertexSpace of the terrain settled.
TerrainConversionSettled ==
    /\ terrainConv.state = "pending"
    /\ terrainConv' = Settled(terrainConv, aborted)
    /\ history' = Resolved(history, terrainConv')
    /\ UNCHANGED <<req, pc, aborted, projected, elevation, feat, originConv,
                   promises, slice, outcome, meshVars>>
    /\ UNCHANGED <<stlVars, componentVars>>

\* convertVertexSpace of the origin marker settled.
OriginConversionSettled ==
    /\ originConv.state = "pending"
    /\ originConv' = Settled(originConv, aborted)
    /\ history' = Resolved(history, originConv')
    /\ UNCHANGED <<req, pc, aborted, projected, elevation, feat, terrainConv,
                   promises, slice, outcome, meshVars>>
    /\ UNCHANGED <<stlVars, componentVars>>

\* Promise.all(promises) rejected, as soon as one of its promises has:
\* mergeSliceMeshes and createMesh reject.
PromiseAllRejected ==
    /\ pc = "promiseAll"
    /\ \E k \in 1..Len(promises) :
           PromiseState(promises[k], feat, terrainConv, originConv) = "rejected"
    /\ pc' = "done"
    /\ outcome' = "rejected"
    /\ UNCHANGED <<req, aborted, projected, elevation, feat, terrainConv, originConv,
                   promises, slice, history, meshVars>>
    /\ UNCHANGED <<stlVars, componentVars>>

\* Promise.all(promises) resolved: the meshes are merged and createMesh awaits
\* slice.load().
PromiseAllResolved ==
    /\ pc = "promiseAll"
    /\ \A k \in 1..Len(promises) :
           PromiseState(promises[k], feat, terrainConv, originConv) = "resolved"
    /\ slice' = [merged |-> TRUE,
                 meshes |-> MergeInput(promises, req.layers, feat, terrainConv,
                                       originConv, history.resolved)]
    /\ pc' = "sliceLoad"
    /\ UNCHANGED <<req, aborted, projected, elevation, feat, terrainConv, originConv,
                   promises, outcome, history, meshVars>>
    /\ UNCHANGED <<stlVars, componentVars>>

\* slice.load() settled: createMesh returns the slice.
SliceLoaded ==
    /\ pc = "sliceLoad"
    /\ pc' = "done"
    /\ outcome' = "resolved"
    /\ UNCHANGED <<req, aborted, projected, elevation, feat, terrainConv, originConv,
                   promises, slice, history, meshVars>>
    /\ UNCHANGED <<stlVars, componentVars>>

\* The conversions called and not yet settled.
PendingConversions ==
    {f \in DOMAIN feat : feat[f].conv.state = "pending"}
        \cup (IF terrainConv.state = "pending" THEN {<<0, 0>>} ELSE {})
        \cup (IF originConv.state = "pending" THEN {<<0, 1>>} ELSE {})

\* The caller aborts the signal while createMesh has not settled.
Abort ==
    /\ ~aborted
    /\ outcome = "pending"
    /\ aborted' = TRUE
    /\ history' = [history EXCEPT !.abortedDuringConversion = PendingConversions # {}]
    /\ UNCHANGED <<req, pc, projected, elevation, feat, terrainConv, originConv,
                   promises, slice, outcome, meshVars>>
    /\ UNCHANGED <<stlVars, componentVars>>

NextPipeline ==
    \/ CreateMeshCall
    \/ ProjectionLoadedForExtent
    \/ ProjectionLoadedForOrigin
    \/ CreateFromElevationSettled
    \/ ExtrudeTerrainMeshAwaited
    \/ MergeSliceMeshesCall
    \/ OriginMarkerCreated
    \/ \E f \in DOMAIN feat : FeatureLoaded(f)
    \/ \E f \in DOMAIN feat : FeatureConversionSettled(f)
    \/ TerrainConversionSettled
    \/ OriginConversionSettled
    \/ PromiseAllRejected
    \/ PromiseAllResolved
    \/ SliceLoaded
    \/ Abort

SpecPipeline == InitPipeline /\ [][NextPipeline]_vars

\* ------------------------------------------------------------------------
\* SpecElevation: createMesh up to the elevations it computes (the bottom of
\* the terrain solid, the height of the origin marker), over features below
\* and above the terrain and over the extrusion depths a caller can pass
\* ------------------------------------------------------------------------
\* What the extrusion depth input can hold: "", "0" and "10".
EnteredDepths == {<<>>, <<"0">>, <<"1", "0">>}

\* parseFloat of a string of decimal digits.
parseFloat(str) == StringToNumber(str, 1, 0)

\* The depth handleExport falls back to.
FallbackExtrusionDepth == 50

\* handleExport: extrusionDepth === '' ? 50 : (parseFloat(extrusionDepth) || 50)
ExportParamsExtrusionDepth(entered) ==
    IF entered = <<>> THEN FallbackExtrusionDepth
    ELSE IF parseFloat(entered) = 0 THEN FallbackExtrusionDepth
    ELSE parseFloat(entered)

\* The depths createMesh is called with: those handleExport passes, and 0,
\* which only a direct call can pass.
ElevationDepths == {0} \cup {ExportParamsExtrusionDepth(e) : e \in EnteredDepths}

\* Features start below the terrain (-5) or above it (10); the terrain of
\* createFromElevation spans z = 1..4.
ElevationZmins == {-5, 10}

InitElevation == InitPipelineWith(ElevationZmins, ElevationDepths)

NextElevation ==
    \/ CreateMeshCall
    \/ ProjectionLoadedForExtent
    \/ ProjectionLoadedForOrigin
    \/ CreateFromElevationSettled
    \/ ExtrudeTerrainMeshAwaited
    \/ MergeSliceMeshesCall
    \/ OriginMarkerCreated

SpecElevation == InitElevation /\ [][NextElevation]_vars

\* ------------------------------------------------------------------------
\* GLB to STL converter: GLBToSTLConverter and its callers
\* ------------------------------------------------------------------------
\* A geometry is the set of its attribute names and whether it has an index;
\* a mesh is problematic when cloning or transforming its geometry throws.
attributesToKeep == {"position", "normal", "uv"}

\* Mutant of normalizeGeometry: no attribute is deleted.
normalizeGeometry_KeepAll(geometry) ==
    [geometry EXCEPT !.attrs = @ \cup {"normal", "uv"}]

\* normalizeGeometry: normals and uv are added when missing, every attribute
\* outside attributesToKeep is deleted.
normalizeGeometry(geometry) ==
    LET withNormal == IF "normal" \in geometry.attrs THEN geometry.attrs
                      ELSE geometry.attrs \cup {"normal"}
        withUv == IF "uv" \in withNormal THEN withNormal ELSE withNormal \cup {"uv"}
        attributesToRemove == {attr \in withUv : attr \notin attributesToKeep}
    IN  [geometry EXCEPT !.attrs = withUv \ attributesToRemove]

\* convertToSTL: scene.scale.multiplyScalar(scale) when scale is not 1.
ApplyScale(group, scale) ==
    IF scale # 1 THEN [group EXCEPT !.scale = @ * scale] ELSE group

\* convertToSTL: the traversal collecting the normalized geometry of every
\* mesh, in world coordinates, skipping the meshes whose processing throws.
CollectGeometries(group) ==
    LET processed == SelectSeq([k \in 1..Len(group.meshes) |-> k],
                               LAMBDA k : ~group.meshes[k].problematic)
    IN  [j \in 1..Len(processed) |->
            LET g == normalizeGeometry(group.meshes[processed[j]].geometry) IN
            [mesh |-> processed[j], attrs |-> g.attrs, indexed |-> g.indexed,
             matrixWorld |-> group.scale]]

\* BufferGeometryUtils.mergeGeometries: null when indexed and non-indexed
\* geometries are mixed or their attributes differ, else one geometry; it may
\* throw (environment).
mergeGeometries(geometries, throws) ==
    IF throws THEN [kind |-> "throws"]
    ELSE IF \E j \in 1..Len(geometries) :
                \/ geometries[j].indexed # geometries[1].indexed
                \/ geometries[j].attrs # geometries[1].attrs
    THEN [kind |-> "null"]
    ELSE [kind |-> "geometry",
          facets |-> [j \in 1..Len(geometries) |->
                         [mesh |-> geometries[j].mesh, scale |-> geometries[j].matrixWorld]]]

\* exporter.parse(object, { binary }): the facets of every mesh of the object
\* in world coordinates, as a DataView (binary) or a string.
ExportMesh(mergedGeometry, binary) ==
    [kind |-> "data", binary |-> binary, facets |-> mergedGeometry.facets]
ExportScene(group, binary) ==
    [kind |-> "data", binary |-> binary,
     facets |-> [k \in 1..Len(group.meshes) |-> [mesh |-> k, scale |-> group.scale]]]

Failure(message) == [kind |-> "error", message |-> message]

\* Mutant of MergeFallback: the catch block rethrows.
MergeFallback_Rethrow(group, binary) == Failure("Failed to merge geometries")

\* convertToSTL: the catch block around the merge exports the scene.
MergeFallback(group, binary) == ExportScene(group, binary)

\* convertToSTL(scene, options): the scene after the call, the geometries
\* collected, how the merge went, the object exported and the result.
convertToSTL(group, options, mergeThrows) ==
    LET scaled == ApplyScale(group, options.scale)
        geometries == CollectGeometries(scaled)
        merged == mergeGeometries(geometries, mergeThrows)
    IN  IF options.mergeGeometries
        THEN IF Len(geometries) = 0
             THEN [settled |-> TRUE, scene |-> scaled, collected |-> geometries,
                   merge |-> "none", exported |-> "none",
                   result |-> Failure("No mesh geometries found in the scene")]
             ELSE IF merged.kind = "geometry"
             THEN [settled |-> TRUE, scene |-> scaled, collected |-> geometries,
                   merge |-> merged.kind, exported |-> "mergedMesh",
                   result |-> ExportMesh(merged, options.binary)]
             ELSE [settled |-> TRUE, scene |-> scaled, collected |-> geometries,
                   merge |-> merged.kind, exported |-> "scene",
                   result |-> MergeFallback(scaled, options.binary)]
        ELSE [settled |-> TRUE, scene |-> scaled, collected |-> <<>>,
              merge |-> "none", exported |-> "scene",
              result |-> ExportScene(scaled, options.binary)]

\* convertGLBToSTL settled without a scene: loadGLB rejected.
LoadFailed ==
    [settled |-> TRUE, scene |-> NoScene, collected |-> <<>>, merge |-> "none",
     exported |-> "none", result |-> Failure("Failed to read file")]

\* Mutant of AwaitConvertGLBToSTL: a rejection is not thrown into the caller.
AwaitConvertGLBToSTL_Swallowed(result) == "returns"

\* await converter.convertGLBToSTL(...): throws into the caller when the
\* promise rejected, else returns the data.
AwaitConvertGLBToSTL(result) == IF result.kind = "error" THEN "throws" ELSE "returns"

\* downloadSTL(stlData, filename) / downloadFile(name, blob): one file handed
\* to the browser.
downloadSTL(files, stlData) == Append(files, [format |-> "stl", data |-> stlData])
downloadFile(files, blob) == Append(files, [format |-> "glb", data |-> blob])

\* The convertAndDownload of the useSTLConverter hook: convertGLBToSTL, then
\* downloadSTL; a failure is thrown to the caller and nothing is downloaded.
convertAndDownload(files, result) ==
    IF AwaitConvertGLBToSTL(result) = "throws"
    THEN [files |-> files, thrown |-> TRUE]
    ELSE [files |-> downloadSTL(files, result), thrown |-> FALSE]

\* ------------------------------------------------------------------------
\* SpecSTL: one call of an entry point of the converter, on every small source
\* ------------------------------------------------------------------------
MeshIdle ==
    /\ mesh = NoMesh
    /\ bottomElevation = 0
    /\ extrudedMesh = NotReturned
    /\ boundaryEdges = <<>>

\* The geometries of a GLB: the position attribute alone, with normals, with
\* uv and vertex colours, or with all of them; indexed or not.
Geometries ==
    [attrs : {{"position"}, {"position", "normal"}, {"position", "uv", "color"},
              {"position", "normal", "uv", "color"}},
     indexed : BOOLEAN]

\* The meshes of a GLB: one for each geometry, and one whose processing in
\* the traversal of convertToSTL throws (its geometry is never looked at).
SceneMeshes ==
    [geometry : Geometries, problematic : {FALSE}]
        \cup {[geometry |-> [attrs |-> {"position"}, indexed |-> FALSE], problematic |-> TRUE]}

\* The scenes of at most MaxSceneMeshes meshes, as loaded: scale 1.
Scenes ==
    {[loaded |-> TRUE, meshes |-> m, scale |-> 1] :
        m \in UNION {[1..n -> SceneMeshes] : n \in 0..MaxSceneMeshes}}

\* A source is a GLB that loads to a scene, or a file or URL that cannot be
\* read or parsed.
Sources == {[readable |-> FALSE, scene |-> NoScene]}
               \cup {[readable |-> TRUE, scene |-> sc] : sc \in Scenes}

\* ConversionOptions, and the options both components pass.
Scales == {1, 2}
ConversionOptions == [binary : BOOLEAN, scale : Scales, mergeGeometries : BOOLEAN]
ComponentOptions == [binary |-> TRUE, scale |-> 1, mergeGeometries |-> TRUE]

\* The calls: convertAndDownloadSTL with any options, handleConversion of the
\* converter component, handleExport of the export settings with either
\* format, whose export mutation succeeds or fails.
Requests ==
    {[entry |-> "convertAndDownloadSTL", source |-> src, options |-> o,
      mergeThrows |-> mt, exportFormat |-> "stl", mutationFails |-> FALSE] :
        src \in Sources, o \in ConversionOptions, mt \in BOOLEAN}
    \cup
    {[entry |-> "handleConversion", source |-> src, options |-> ComponentOptions,
      mergeThrows |-> mt, exportFormat |-> "stl", mutationFails |-> FALSE] :
        src \in Sources, mt \in BOOLEAN}
    \cup
    {[entry |-> "handleExport", source |-> src, options |-> ComponentOptions,
      mergeThrows |-> mt, exportFormat |-> f, mutationFails |-> mf] :
        src \in Sources, mt \in BOOLEAN, f \in {"glb", "stl"}, mf \in BOOLEAN}

InitSTL ==
    /\ stlReq \in Requests
    /\ stlPc = "call"
    /\ scene = NoScene
    /\ conversion = NoConversion
    /\ downloads = <<>>
    /\ ui = [isConverting |-> FALSE, isConvertingToSTL |-> FALSE, callbacks |-> <<>>,
             settled |-> "pending"]
    /\ component = [mounted |-> FALSE]
    /\ MeshIdle
    /\ PipelineIdle

\* convertAndDownloadSTL(source, filename, options) up to its await.
ConvertAndDownloadSTLCall ==
    /\ stlReq.entry = "convertAndDownloadSTL"
    /\ stlPc = "call"
    /\ stlPc' = "convertGLBToSTL"
    /\ UNCHANGED <<stlReq, scene, conversion, downloads, ui>>
    /\ UNCHANGED <<meshVars, pipelineVars, componentVars>>

\* handleConversion(source) up to its await: setIsConverting(true).
HandleConversionCall ==
    /\ stlReq.entry = "handleConversion"
    /\ stlPc = "call"
    /\ ui' = [ui EXCEPT !.isConverting = TRUE]
    /\ stlPc' = "convertGLBToSTL"
    /\ UNCHANGED <<stlReq, scene, conversion, downloads>>
    /\ UNCHANGED <<meshVars, pipelineVars, componentVars>>

\* handleExport() up to its await of the export mutation.
HandleExportCall ==
    /\ stlReq.entry = "handleExport"
    /\ stlPc = "call"
    /\ stlPc' = "mutateAsync"
    /\ UNCHANGED <<stlReq, scene, conversion, downloads, ui>>
    /\ UNCHANGED <<meshVars, pipelineVars, componentVars>>

\* mutation.mutateAsync settled. Rejected: the catch block. Resolved with the
\* GLB blob: downloadFile for glb, convertAndDownload awaited for stl.
MutationSettled ==
    /\ stlPc = "mutateAsync"
    /\ IF stlReq.mutationFails
       THEN /\ ui' = [ui EXCEPT !.isConvertingToSTL = FALSE,
                                !.callbacks = Append(@, "console.error"),
                                !.settled = "resolved"]
            /\ stlPc' = "done"
            /\ UNCHANGED downloads
       ELSE IF stlReq.exportFormat = "glb"
       THEN /\ downloads' = downloadFile(downloads, stlReq.source)
            /\ ui' = [ui EXCEPT !.settled = "resolved"]
            /\ stlPc' = "done"
       ELSE /\ ui' = [ui EXCEPT !.isConvertingToSTL = TRUE]
            /\ stlPc' = "convertGLBToSTL"
            /\ UNCHANGED downloads
    /\ UNCHANGED <<stlReq, scene, conversion>>
    /\ UNCHANGED <<meshVars, pipelineVars, componentVars>>

\* loadGLB settled inside convertGLBToSTL: rejected, or resolved with the
\* scene, which convertToSTL converts at once; the convertGLBToSTL promise
\* settles with the outcome.
LoadGLBSettled ==
    /\ stlPc = "convertGLBToSTL"
    /\ ~conversion.settled
    /\ IF ~stlReq.source.readable
       THEN /\ conversion' = LoadFailed
            /\ UNCHANGED scene
       ELSE /\ conversion' = convertToSTL(stlReq.source.scene, stlReq.options,
                                          stlReq.mergeThrows)
            /\ scene' = conversion'.scene
    /\ UNCHANGED <<stlReq, stlPc, downloads, ui>>
    /\ UNCHANGED <<meshVars, pipelineVars, componentVars>>

\* convertAndDownloadSTL resumed: rejects, or downloads and resolves.
ConvertAndDownloadSTLResumed ==
    /\ stlReq.entry = "convertAndDownloadSTL"
    /\ stlPc = "convertGLBToSTL"
    /\ conversion.settled
    /\ IF AwaitConvertGLBToSTL(conversion.result) = "throws"
       THEN /\ ui' = [ui EXCEPT !.settled = "rejected"]
            /\ UNCHANGED downloads
       ELSE /\ downloads' = downloadSTL(downloads, conversion.result)
            /\ ui' = [ui EXCEPT !.settled = "resolved"]
    /\ stlPc' = "done"
    /\ UNCHANGED <<stlReq, scene, conversion>>
    /\ UNCHANGED <<meshVars, pipelineVars, componentVars>>

\* handleConversion resumed: the catch block, or downloadSTL and
\* onConversionComplete; finally setIsConverting(false).
HandleConversionResumed ==
    /\ stlReq.entry = "handleConversion"
    /\ stlPc = "convertGLBToSTL"
    /\ conversion.settled
    /\ IF AwaitConvertGLBToSTL(conversion.result) = "throws"
       THEN /\ ui' = [ui EXCEPT !.isConverting = FALSE,
                                !.callbacks = @ \o <<"console.error", "onConversionError">>,
                                !.settled = "resolved"]
            /\ UNCHANGED downloads
       ELSE /\ downloads' = downloadSTL(downloads, conversion.result)
            /\ ui' = [ui EXCEPT !.isConverting = FALSE,
                                !.callbacks = Append(@, "onConversionComplete"),
                                !.settled = "resolved"]
    /\ stlPc' = "done"
    /\ UNCHANGED <<stlReq, scene, conversion>>
    /\ UNCHANGED <<meshVars, pipelineVars, componentVars>>

\* handleExport resumed from await convertAndDownload(...): the catch block,
\* or setIsConvertingToSTL(false).
HandleExportResumed ==
    /\ stlReq.entry = "handleExport"
    /\ stlPc = "convertGLBToSTL"
    /\ conversion.settled
    /\ LET hook == convertAndDownload(downloads, conversion.result) IN
       /\ downloads' = hook.files
       /\ ui' = IF hook.thrown
                THEN [ui EXCEPT !.isConvertingToSTL = FALSE,
                                !.callbacks = Append(@, "console.error"),
                                !.settled = "resolved"]
                ELSE [ui EXCEPT !.isConvertingToSTL = FALSE, !.settled = "resolved"]
    /\ stlPc' = "done"
    /\ UNCHANGED <<stlReq, scene, conversion>>
    /\ UNCHANGED <<meshVars, pipelineVars, componentVars>>

NextSTL ==
    \/ ConvertAndDownloadSTLCall
    \/ HandleConversionCall
    \/ HandleExportCall
    \/ MutationSettled
    \/ LoadGLBSettled
    \/ ConvertAndDownloadSTLResumed
    \/ HandleConversionResumed
    \/ HandleExportResumed

SpecSTL == InitSTL /\ [][NextSTL]_vars

\* ------------------------------------------------------------------------
\* SpecComponent: GLBToSTLConverterComponent under file-select, drop and URL
\* button events, each conversion completing at any later moment
\* ------------------------------------------------------------------------
\* What a conversion of the component may be given: a source that cannot be
\* loaded, a GLB without a mesh, a GLB with one mesh.
ComponentSources ==
    {src \in Sources : src.readable =>
        /\ Len(src.scene.meshes) <= 1
        /\ \A k \in 1..Len(src.scene.meshes) :
               src.scene.meshes[k] = [geometry |-> [attrs |-> {"position"}, indexed |-> FALSE],
                                      problematic |-> FALSE]}

\* The files a user may select or drop: GLB files, and a file of another type.
Files == {[glb |-> TRUE, source |-> src] : src \in ComponentSources}
             \cup {[glb |-> FALSE, source |-> [readable |-> FALSE, scene |-> NoScene]]}

\* The component is mounted with or without the glbUrl prop; nothing converts.
InitComponent ==
    /\ \E url \in {[present |-> FALSE]} \cup
                  {[present |-> TRUE, source |-> src] : src \in ComponentSources} :
           component = [mounted |-> TRUE, glbUrl |-> url, events |-> 0, calls |-> <<>>]
    /\ stlReq = [entry |-> "none"]
    /\ stlPc = "none"
    /\ scene = NoScene
    /\ conversion = NoConversion
    /\ downloads = <<>>
    /\ ui = [isConverting |-> FALSE, isConvertingToSTL |-> FALSE, callbacks |-> <<>>,
             settled |-> "pending"]
    /\ MeshIdle
    /\ PipelineIdle

\* handleConversion(source) up to its await: setIsConverting(true).
handleConversion(event, source) ==
    /\ ui' = [ui EXCEPT !.isConverting = TRUE]
    /\ component' = [component EXCEPT
                        !.events = @ + 1,
                        !.calls = Append(@, [event |-> event, source |-> source,
                                             state |-> "converting"])]

\* The handler of a file event: a GLB file is converted, another file alerts.
HandleFile(event, file) ==
    IF file.glb
    THEN handleConversion(event, file.source)
    ELSE /\ ui' = [ui EXCEPT !.callbacks = Append(@, "alert")]
         /\ component' = [component EXCEPT !.events = @ + 1]

\* handleFileSelect: the file input is rendered, and enabled, only while
\* isConverting is false.
HandleFileSelect ==
    /\ component.mounted
    /\ component.events < MaxConversions
    /\ ~ui.isConverting
    /\ \E file \in Files : HandleFile("fileSelect", file)
    /\ UNCHANGED <<stlReq, stlPc, scene, conversion, downloads, meshVars, pipelineVars>>

\* handleDrop: the drop zone takes a drop whatever isConverting is.
HandleDrop ==
    /\ component.mounted
    /\ component.events < MaxConversions
    /\ \E file \in Files : HandleFile("drop", file)
    /\ UNCHANGED <<stlReq, stlPc, scene, conversion, downloads, meshVars, pipelineVars>>

\* handleConvertUrl: the button is rendered with a glbUrl and disabled while
\* isConverting is true.
HandleConvertUrl ==
    /\ component.mounted
    /\ component.events < MaxConversions
    /\ component.glbUrl.present
    /\ ~ui.isConverting
    /\ handleConversion("convertUrl", component.glbUrl.source)
    /\ UNCHANGED <<stlReq, stlPc, scene, conversion, downloads, meshVars, pipelineVars>>

\* The k-th handleConversion resumed from await convertGLBToSTL: the catch
\* block, or downloadSTL and onConversionComplete; finally
\* setIsConverting(false).
HandleConversionSettled(k) ==
    /\ component.mounted
    /\ component.calls[k].state = "converting"
    /\ LET source == component.calls[k].source
           result == IF source.readable
                     THEN convertToSTL(source.scene, ComponentOptions, FALSE).result
                     ELSE LoadFailed.result
       IN  IF AwaitConvertGLBToSTL(result) = "throws"
           THEN /\ ui' = [ui EXCEPT !.isConverting = FALSE,
                                    !.callbacks = @ \o <<"console.error", "onConversionError">>]
                /\ UNCHANGED downloads
           ELSE /\ downloads' = downloadSTL(downloads, result)
                /\ ui' = [ui EXCEPT !.isConverting = FALSE,
                                    !.callbacks = Append(@, "onConversionComplete")]
    /\ component' = [component EXCEPT !.calls[k].state = "done"]
    /\ UNCHANGED <<stlReq, stlPc, scene, conversion, meshVars, pipelineVars>>

NextComponent ==
    \/ HandleFileSelect
    \/ HandleDrop
    \/ HandleConvertUrl
    \/ \E k \in 1..MaxConversions : k <= Len(component.calls) /\ HandleConversionSettled(k)

SpecComponent == InitComponent /\ [][NextComponent]_vars

\* ------------------------------------------------------------------------
\* Properties of the extruder
\* ------------------------------------------------------------------------
\* The extruder was called on a mesh that has a position and a face buffer.
Extruded == extrudedMesh.returned /\ mesh.position.present /\ mesh.faces.present

InVertexCount == Len(mesh.position.data) \div 3
InFaces == mesh.faces.data
OutFaces == extrudedMesh.mesh.faces.data

\* The vertex set of the k-th triangle of a face buffer.
TriangleVertices(faces, k) == {faces[3 * k - 2], faces[3 * k - 1], faces[3 * k]}

Triangles(faces) == 1..(Len(faces) \div 3)

\* No triangle has an edge from a vertex to itself.
NoDegenerateEdges(faces) ==
    \A k \in Triangles(faces) : Cardinality(TriangleVertices(faces, k)) = 3

\* The undirected edges of a face buffer, each a set of two vertices.
EdgesOf(faces) ==
    {e \in UNION {SUBSET TriangleVertices(faces, k) : k \in Triangles(faces)} :
        Cardinality(e) = 2}

\* The number of triangles an undirected edge belongs to.
Occurrences(faces, e) ==
    Cardinality({k \in Triangles(faces) : e \subseteq TriangleVertices(faces, k)})

\* Each undirected edge belongs to at most two triangles.
AtMostTwoPerEdge(faces) == \A e \in EdgesOf(faces) : Occurrences(faces, e) <= 2

\* The undirected edge a reported pair stands for.
PairEdge(pair) == {pair[1], pair[2]}

\* C1: the extruded mesh has exactly 2*N vertices and a face buffer of exactly
\* 2*F + 6*B indices, N and F the input's vertex count and face-buffer length
\* and B the number of boundary edges findBoundaryEdges reported for the input.
C1_ExtrudedSizes ==
    Extruded =>
        /\ Len(extrudedMesh.mesh.position.data) = 3 * (2 * InVertexCount)
        /\ Len(OutFaces) = 2 * Len(InFaces) + 6 * Len(boundaryEdges)

\* C1 witness: the flat square (4 vertices, 2 triangles, z = 0, bottom -10) was
\* extruded to 8 vertices and 12 triangles.
C1_Witness ==
    /\ Extruded
    /\ bottomElevation = -10
    /\ mesh.position.data = PositionBuffer(4, "flat")
    /\ InFaces = <<0, 1, 2, 1, 3, 2>>
    /\ Len(boundaryEdges) = 4
    /\ Len(extrudedMesh.mesh.position.data) = 3 * 8
    /\ Len(OutFaces) = 3 * 12

\* C2: on a face buffer without degenerate edges findBoundaryEdges reports each
\* undirected edge that belongs to exactly one triangle, once, and nothing else.
C2_BoundaryEdgesExact ==
    (Extruded /\ NoDegenerateEdges(InFaces)) =>
        /\ \A i, j \in 1..Len(boundaryEdges) :
               i # j => PairEdge(boundaryEdges[i]) # PairEdge(boundaryEdges[j])
        /\ {PairEdge(boundaryEdges[i]) : i \in 1..Len(boundaryEdges)}
               = {e \in EdgesOf(InFaces) : Occurrences(InFaces, e) = 1}

\* C2 witness: two triangles sharing the edge {1, 2} gave exactly 4 boundary
\* edges, the shared edge not among them.
C2_Witness ==
    /\ Extruded
    /\ InFaces = <<0, 1, 2, 1, 3, 2>>
    /\ Len(boundaryEdges) = 4
    /\ \A i \in 1..Len(boundaryEdges) : PairEdge(boundaryEdges[i]) # {1, 2}

\* C3 as stated: when every input edge belongs to at most two triangles,
\* every undirected edge of the output belongs to exactly two output triangles.
C3_EveryEdgeExactlyTwo ==
    (Extruded /\ NoDegenerateEdges(InFaces) /\ AtMostTwoPerEdge(InFaces)) =>
        \A e \in EdgesOf(OutFaces) : Occurrences(OutFaces, e) = 2

\* The number of boundary edges of the input that meet at top vertex v.
BoundaryDegree(v) ==
    Cardinality({i \in 1..Len(boundaryEdges) : v \in PairEdge(boundaryEdges[i])})

\* C3 amended: on an input without degenerate edges in which every edge
\* belongs to at most two triangles, findBoundaryEdges applied to the output
\* reports no edge, and every output edge belongs to exactly two output
\* triangles, except the vertical edge {v, v+N} under a top vertex v where more
\* than two boundary edges meet, which belongs to one wall triangle for each
\* of them.
C3_Closed ==
    (Extruded /\ NoDegenerateEdges(InFaces) /\ AtMostTwoPerEdge(InFaces)) =>
        /\ findBoundaryEdges(OutFaces, 2 * InVertexCount) = <<>>
        /\ \A e \in EdgesOf(OutFaces) :
               \/ Occurrences(OutFaces, e) = 2
               \/ \E v \in 0..(InVertexCount - 1) :
                      /\ e = {v, v + InVertexCount}
                      /\ BoundaryDegree(v) > 2
                      /\ Occurrences(OutFaces, e) = BoundaryDegree(v)

\* C3 witness: two triangles that share only vertex 2 were extruded; four
\* boundary edges meet at vertex 2 and the output reports no boundary edge.
C3_Witness ==
    /\ Extruded
    /\ InFaces = <<0, 1, 2, 2, 3, 4>>
    /\ BoundaryDegree(2) = 4
    /\ Occurrences(OutFaces, {2, 2 + InVertexCount}) = 4
    /\ findBoundaryEdges(OutFaces, 2 * InVertexCount) = <<>>

\* The directed edges in which the k-th triangle of a face buffer is traversed.
DirectedEdges(faces, k) ==
    {<<faces[3 * k - 2], faces[3 * k - 1]>>, <<faces[3 * k - 1], faces[3 * k]>>,
     <<faces[3 * k]    , faces[3 * k - 2]>>}

\* The first of the two wall triangles written for the j-th boundary edge.
WallTriangle(j) == (Len(InFaces) + 6 * (j - 1)) \div 3 + 1

\* C15: for every boundary edge the wall triangle (topV1, bottomV1, topV2)
\* traverses the top edge in the direction opposite to the one in which the
\* single top triangle owning the edge traverses it.
C15_WallsOpposeTop ==
    (Extruded /\ NoDegenerateEdges(InFaces)) =>
        \A j \in 1..Len(boundaryEdges) :
            \A k \in Triangles(InFaces) :
                PairEdge(boundaryEdges[j]) \subseteq TriangleVertices(InFaces, k) =>
                    \A e \in DirectedEdges(OutFaces, WallTriangle(j)) :
                        PairEdge(e) = PairEdge(boundaryEdges[j]) =>
                            <<e[2], e[1]>> \in DirectedEdges(InFaces, k)

\* C16: the returned face buffer is the input face buffer, then for the j-th
\* boundary edge (v1, v2) the triangles (v1, v1+N, v2) and (v2, v1+N, v2+N),
\* then for the k-th input triangle (a, b, c) the triangle (c+N, b+N, a+N).
C16_FaceBlocks ==
    Extruded =>
        LET F == Len(InFaces)
            B == Len(boundaryEdges)
            N == InVertexCount
        IN  /\ Len(OutFaces) = F + 6 * B + F
            /\ SubSeq(OutFaces, 1, F) = InFaces
            /\ \A j \in 1..B :
                   SubSeq(OutFaces, F + 6 * (j - 1) + 1, F + 6 * j) =
                       <<boundaryEdges[j][1], boundaryEdges[j][1] + N, boundaryEdges[j][2],
                         boundaryEdges[j][2], boundaryEdges[j][1] + N,
                         boundaryEdges[j][2] + N>>
            /\ \A k \in Triangles(InFaces) :
                   SubSeq(OutFaces, F + 6 * B + 3 * k - 2, F + 6 * B + 3 * k) =
                       <<InFaces[3 * k] + N, InFaces[3 * k - 1] + N, InFaces[3 * k - 2] + N>>

\* C16 witness: two triangles sharing an edge, whose bottom block is the two
\* triangles reversed and offset by 4.
C16_Witness ==
    /\ Extruded
    /\ InVertexCount = 4
    /\ InFaces = <<0, 1, 2, 1, 3, 2>>
    /\ Len(boundaryEdges) = 4
    /\ SubSeq(OutFaces, 31, 36) = <<6, 5, 4, 6, 7, 5>>

\* C17: a call of the extruder leaves the input mesh as it was, and in the
\* returned position buffer vertex i < N is input vertex i, vertex i + N has
\* its x and y and the bottom elevation as z.
C17_VertexBuffer ==
    [][(~extrudedMesh.returned /\ extrudedMesh'.returned
            /\ mesh.position.present /\ mesh.faces.present) =>
          LET in == mesh.position.data
              out == extrudedMesh'.mesh.position.data
              N == Len(in) \div 3
          IN  /\ mesh' = mesh
              /\ Len(out) = 3 * (2 * N)
              /\ \A i \in 0..(N - 1) :
                     /\ \A c \in 1..3 : out[3 * i + c] = in[3 * i + c]
                     /\ out[3 * (i + N) + 1] = in[3 * i + 1]
                     /\ out[3 * (i + N) + 2] = in[3 * i + 2]
                     /\ out[3 * (i + N) + 3] = bottomElevation]_vars

\* C17 witness: the slope of 4 vertices (z = 1..4) extruded to the bottom -3:
\* the bottom vertices all have z = -3, the top ones keep theirs.
C17_Witness ==
    /\ Extruded
    /\ InVertexCount = 4
    /\ bottomElevation = -3
    /\ mesh.position.data = PositionBuffer(4, "slope")
    /\ \A i \in 0..3 : /\ extrudedMesh.mesh.position.data[3 * i + 3] = i + 1
                       /\ extrudedMesh.mesh.position.data[3 * (i + 4) + 3] = -3

\* ------------------------------------------------------------------------
\* Properties of createMesh
\* ------------------------------------------------------------------------
\* The reference chosen for the merge: the origin after its projection.
MergeWkid == createMeshSr(req)

Matching(l) == req.layers[l].wkid = MergeWkid

\* The mesh the conversion of a source to the merge's vertex space gives.
Converted(source) == [source |-> source, vertexSpace |-> VertexSpace(MergeWkid)]

\* The caller's order: the features of the matching layers in feature-map
\* order, each layer's in list order.
RECURSIVE FeaturesInCallerOrder(_)
FeaturesInCallerOrder(l) ==
    IF l > Len(req.layers) THEN <<>>
    ELSE (IF Matching(l)
          THEN [i \in 1..Len(req.layers[l].features) |-> Converted(<<"feature", l, i>>)]
          ELSE <<>>) \o FeaturesInCallerOrder(l + 1)

IsMarker(m) == m.source[1] = "origin"

\* C4: under every interleaving of completions the meshes handed to the merge
\* are the features of the non-skipped layers in feature-map order, each
\* layer's in list order, then the terrain, then the origin marker exactly
\* when it was requested.
C4_MergeOrderIsCallerOrder ==
    slice.merged =>
        LET n == Len(FeaturesInCallerOrder(1))
            rest == SubSeq(slice.meshes, n + 1, Len(slice.meshes))
        IN  /\ Len(slice.meshes) >= n + 1
            /\ SubSeq(slice.meshes, 1, n) = FeaturesInCallerOrder(1)
            /\ rest[1] = Converted(<<"terrain", 0, 0>>)
            /\ IF req.includeOriginMarker
               THEN Len(rest) = 2 /\ IsMarker(rest[2])
                    /\ rest[2].vertexSpace = VertexSpace(MergeWkid)
               ELSE Len(rest) = 1

\* The merge ran although the conversions resolved in another order than the
\* caller's: the origin marker before others, features of one layer reversed.
C4_Witness ==
    /\ slice.merged
    /\ Len(slice.meshes) >= 4
    /\ Len(history.resolved) = Len(slice.meshes)
    /\ history.resolved[1][1] = "origin"
    /\ \E j, k \in 1..Len(history.resolved) :
           /\ j < k
           /\ history.resolved[j][1] = "feature" /\ history.resolved[k][1] = "feature"
           /\ history.resolved[j][2] = history.resolved[k][2]
           /\ history.resolved[j][3] > history.resolved[k][3]

\* C5: once the signal has fired while a vertex-space conversion was
\* outstanding, no merge is performed and createMesh can only end rejected.
C5_AbortDuringConversionRejects ==
    history.abortedDuringConversion =>
        /\ ~slice.merged
        /\ slice.meshes = <<>>
        /\ outcome # "resolved"
        /\ pc = "done" => outcome = "rejected"

\* The signal fired during a feature's conversion, after the terrain's had
\* resolved, and createMesh has ended.
C5_Witness ==
    /\ history.abortedDuringConversion
    /\ pc = "done"
    /\ outcome = "rejected"
    /\ terrainConv.state = "resolved"
    /\ \E f \in DOMAIN feat : feat[f].conv.state = "rejected"

\* The suspend points createMesh itself may be waiting at.
SuspendPoints ==
    {"projectionLoadExtent", "projectionLoadOrigin", "createFromElevation",
     "extrudeTerrainMesh", "createOriginMarker", "promiseAll", "sliceLoad"}

\* C6: once the signal has fired, createMesh does not proceed past the suspend
\* point it is waiting at (it stays there or ends rejected), no feature
\* proceeds past its mesh.load(), and no conversion resolves.
C6_SuspendPointsObserveAbort ==
    [][aborted =>
          /\ pc \in SuspendPoints => (pc' = pc \/ (pc' = "done" /\ outcome' = "rejected"))
          /\ \A f \in DOMAIN feat : feat[f].load = "loading" => feat'[f].load = "loading"
          /\ history'.resolved = history.resolved]_vars

\* C9: the features of a layer whose reference differs from the merge's are
\* never loaded, converted or merged; this alone never rejects createMesh; and
\* a merge holds every feature of the matching layers, the terrain and the
\* requested origin marker.
C9_MismatchedLayerSkipped ==
    /\ \A f \in DOMAIN feat :
           ~Matching(f[1]) =>
               /\ feat[f] = [load |-> "none", conv |-> NoConv, name |-> <<"original">>]
               /\ \A k \in 1..Len(slice.meshes) :
                      slice.meshes[k].source # <<"feature", f[1], f[2]>>
    /\ outcome = "rejected" => aborted
    /\ (~aborted /\ pc = "done") => (outcome = "resolved" /\ slice.merged)
    /\ slice.merged =>
           LET merged == {slice.meshes[k] : k \in 1..Len(slice.meshes)} IN
           /\ \A f \in DOMAIN feat :
                  Matching(f[1]) => Converted(<<"feature", f[1], f[2]>>) \in merged
           /\ Converted(<<"terrain", 0, 0>>) \in merged
           /\ req.includeOriginMarker => \E m \in merged : IsMarker(m)

\* A feature map with a skipped layer that has a feature, next to a matching
\* layer with a feature, merged with the origin marker and returned.
C9_Witness ==
    /\ outcome = "resolved"
    /\ slice.merged
    /\ req.includeOriginMarker
    /\ \E f, g \in DOMAIN feat : ~Matching(f[1]) /\ Matching(g[1])

\* The stages of the export pipeline, as the state shows them: the terrain
\* was extruded, its conversion into the shared vertex space was called and
\* has resolved, the merge was performed.
Extruding == extrudedMesh.returned
Normalizing == terrainConv.state # "none"
NormalizingDone == terrainConv.state = "resolved"
Merging == slice.merged

\* No stage is entered twice: what a stage produced is never produced again.
StagesOnce ==
    /\ Extruding => extrudedMesh' = extrudedMesh
    /\ Normalizing => /\ terrainConv'.state # "none"
                      /\ terrainConv'.source = terrainConv.source
    /\ terrainConv.state \in {"resolved", "rejected"} => terrainConv' = terrainConv
    /\ Merging => slice' = slice

TerrainExtruded == req.extrudeBase /\ extrudedMesh.returned

\* The lowest and highest z of the features of the layers that satisfy keep.
FeatureZmins(keep(_)) ==
    {req.layers[f[1]].features[f[2]].zmin : f \in {g \in DOMAIN feat : keep(g[1])}}
FeatureZmaxs(keep(_)) ==
    {req.layers[f[1]].features[f[2]].zmax : f \in {g \in DOMAIN feat : keep(g[1])}}

AnyLayer(l) == TRUE

\* min(terrain zmin, minimum zmin of the features of the kept layers) - depth
BottomOver(keep(_)) ==
    MinOf({ExtentZmin(mesh)} \cup FeatureZmins(keep)) - req.extrusionDepth

\* C13 as stated: the bottom elevation passed to the extruder is min(terrain
\* zmin, minimum feature zmin) - depth, and for every depth >= 0 it is
\* strictly lower than the terrain's minimum z.
C13_BottomStrictlyLower ==
    TerrainExtruded =>
        /\ bottomElevation = BottomOver(AnyLayer)
        /\ req.extrusionDepth >= 0 => bottomElevation < ExtentZmin(mesh)

\* C13 amended: the bottom elevation is min(terrain zmin, minimum feature
\* zmin) - depth; it is strictly lower than the terrain's minimum z for every
\* depth > 0 and not higher for depth 0; and handleExport passes a depth > 0
\* for every entered depth >= 0, an entered 0 or nothing becoming 50.
C13_BottomElevation ==
    TerrainExtruded =>
        /\ bottomElevation = BottomOver(AnyLayer)
        /\ req.extrusionDepth > 0 => bottomElevation < ExtentZmin(mesh)
        /\ req.extrusionDepth = 0 => bottomElevation <= ExtentZmin(mesh)
        /\ \A e \in EnteredDepths : ExportParamsExtrusionDepth(e) > 0
        /\ ExportParamsExtrusionDepth(<<"0">>) = 50

\* C13 witness: createMesh called with depth 0 and features above the terrain
\* only: the bottom of the solid is at the terrain's minimum z.
C13_Witness ==
    /\ TerrainExtruded
    /\ req.extrusionDepth = 0
    /\ DOMAIN feat # {}
    /\ bottomElevation = ExtentZmin(mesh)

\* C18: the bottom elevation of the terrain solid and the height of the origin
\* marker are what they would be had the features of the skipped layers not
\* been supplied.
C18_SkippedLayerContributesNothing ==
    /\ TerrainExtruded => bottomElevation = BottomOver(Matching)
    /\ originConv.state = "creating" =>
           originConv.height =
               MaxOf({ExtentZmax(mesh)} \cup FeatureZmaxs(Matching))
                   - (IF req.extrudeBase THEN BottomOver(Matching)
                      ELSE MinOf({ExtentZmin(mesh)} \cup FeatureZmins(Matching)))

\* C14: a run of createMesh leaves the feature meshes supplied by the caller,
\* and their components, as they were before the run.
C14_CallerMeshesUnchanged ==
    \A f \in DOMAIN feat : feat[f].name = <<"original">>

\* ------------------------------------------------------------------------
\* Properties of the GLB to STL converter
\* ------------------------------------------------------------------------
\* convertToSTL ran on the scene the source loaded to.
SceneConverted == conversion.settled /\ stlReq.source.readable

SourceMeshes == stlReq.source.scene.meshes

\* C7: for every value of the options, convertToSTL on a scene without a mesh
\* fails with the no-geometry error and returns no STL data.
C7_NoMeshSceneFails ==
    (SceneConverted /\ Len(SourceMeshes) = 0) =>
        /\ conversion.result.kind = "error"
        /\ conversion.result.message = "No mesh geometries found in the scene"

\* C8: with mergeGeometries enabled and a geometry collected, a merge that
\* throws or returns null never fails convertToSTL: the result is the export
\* of the whole unmerged scene, in the requested encoding.
C8_MergeFailureFallsBack ==
    (/\ SceneConverted
     /\ stlReq.options.mergeGeometries
     /\ Len(conversion.collected) >= 1
     /\ conversion.merge \in {"null", "throws"}) =>
        /\ conversion.exported = "scene"
        /\ conversion.result.kind = "data"
        /\ conversion.result.binary = stlReq.options.binary
        /\ conversion.result.facets =
               [k \in 1..Len(SourceMeshes) |-> [mesh |-> k, scale |-> stlReq.options.scale]]

\* An indexed and a non-indexed geometry were collected, the merge returned
\* null, and the export of the scene was downloaded.
C8_Witness ==
    /\ stlPc = "done"
    /\ conversion.settled
    /\ Len(conversion.collected) = 2
    /\ conversion.collected[1].indexed # conversion.collected[2].indexed
    /\ conversion.merge = "null"
    /\ conversion.result.kind = "data"
    /\ downloads = <<[format |-> "stl", data |-> conversion.result]>>

\* The request failed fatally: the export mutation rejected, or loading or
\* converting the source failed.
FatalFailure ==
    \/ stlReq.entry = "handleExport" /\ stlReq.mutationFails
    \/ conversion.settled /\ conversion.result.kind = "error"

\* C10: in a run in which the export, the load of the source or its conversion
\* fails, no file is ever handed to the browser.
C10_NoDownloadOnFailure == FatalFailure => downloads = <<>>

\* handleConversion has ended on a scene whose only mesh could not be
\* processed: no geometry found, the error callback ran, nothing downloaded.
C10_Witness ==
    /\ stlPc = "done"
    /\ stlReq.entry = "handleConversion"
    /\ conversion.settled
    /\ conversion.result = Failure("No mesh geometries found in the scene")
    /\ ui.callbacks = <<"console.error", "onConversionError">>
    /\ downloads = <<>>

\* C11: the geometry normalizeGeometry returns for a geometry with a position
\* attribute has exactly the attributes position, normal and uv, and
\* normalizing it again gives the same geometry.
C11_NormalizeIdempotent ==
    (SceneConverted /\ stlReq.options.mergeGeometries) =>
        \A j \in 1..Len(conversion.collected) :
            LET normalized == [attrs |-> conversion.collected[j].attrs,
                               indexed |-> conversion.collected[j].indexed]
            IN  /\ "position" \in SourceMeshes[conversion.collected[j].mesh].geometry.attrs
                /\ normalized.attrs = {"position", "normal", "uv"}
                /\ normalizeGeometry(normalized) = normalized

\* C11 witness: a geometry with position alone and one with position, uv and
\* vertex colours were normalized.
C11_Witness ==
    /\ SceneConverted
    /\ Len(conversion.collected) = 2
    /\ SourceMeshes[1].geometry.attrs = {"position"}
    /\ SourceMeshes[2].geometry.attrs = {"position", "uv", "color"}
    /\ \A j \in 1..2 : conversion.collected[j].attrs = {"position", "normal", "uv"}

\* C19: convertToSTL leaves the scale of the scene passed to it unchanged, and
\* a second call on the same scene with the same options returns the same
\* output.
C19_SceneScaleUnchanged ==
    SceneConverted =>
        /\ scene.scale = stlReq.source.scene.scale
        /\ convertToSTL(scene, stlReq.options, stlReq.mergeThrows).result = conversion.result

\* The handleConversion calls of the component that are in flight.
InFlight ==
    IF component.mounted
    THEN {k \in 1..Len(component.calls) : component.calls[k].state = "converting"}
    ELSE {}

\* C20: isConverting is true whenever a conversion of the component is in
\* flight.
C20_BusyWhileInFlight == InFlight # {} => ui.isConverting

====
